---- MODULE Spec2Model ----
(***************************************************************************)
(* Model of dbt-document-generator/dbt_doc_automation.py: the bounded-     *)
(* concurrency documentation pipeline of DBTDocumentationAutomator.        *)
(*                                                                         *)
(* One run: main() checks the credential, run_automation() performs steps  *)
(* 1-3, creates one process_model coroutine per model, gathers them, and   *)
(* then either rewrites the YAML files (step 6) or logs a failure.         *)
(* A process_model coroutine suspends only inside call_llm_async, so a     *)
(* unit is modelled by three steps: Acquire (enter the semaphore and issue *)
(* the POST), Respond (the call returns, call_llm_async returns its string *)
(* and leaves the semaphore) and Save (step_5_save_doc_blocks).            *)
(***************************************************************************)
EXTENDS Integers, Sequences, FiniteSets, TLC

\* ---------------------------------------------------------------- bounds
\* Largest number of models in a run with unrestricted faults.
MaxRecords == 3
\* Number of models of the large run (more models than semaphore slots).
CapRecords == 6
\* Faults (failed calls, failed writes, failed YAML files) the environment
\* may inject in a small run; a large run gets one.
MaxFaults == 3
\* Largest number of YAML files under models/.
MaxFiles == 2
\* Longest compiled SQL text handed to construct_prompt.
MaxSqlLen == 1100

\* ------------------------------------------------------ program constants
\* asyncio.Semaphore(5)
SemaphoreCapacity == 5

\* model_info.compiled_sql[:1000]
SqlBudget == 1000

\* The string call_llm_async returns on every failure path.
ErrorText == "Error generating documentation"

\* ------------------------------------------------------------ input data
\* Names of the models of the manifest, by position.
ModelNames ==
  <<"m1", "m2", "m3", "m4", "m5", "m6", "m7", "m8", "m9", "m10">>

\* result['choices'][0]['message']['content'] of a successful call for the
\* model at position i: the service answers each request with its own text.
LLMContent(i) ==
  <<"text1", "text2", "text3", "text4", "text5",
    "text6", "text7", "text8", "text9", "text10">>[i]

\* ModelInfo: only the name takes part in the pipeline's control flow.
ModelInfo(nm) == [name |-> nm]

\* The model list step_3_extract_model_info returns for a manifest with n
\* model nodes; with dup the second node carries the first node's name.
ExtractModels(n, dup) ==
  [i \in 1..n |->
     ModelInfo(IF dup /\ i = 2 THEN ModelNames[1] ELSE ModelNames[i])]

\* ------------------------------------------------------- document files
\* docs/<name>_doc.md that does not exist.
Absent == <<>>
\* A document left by an earlier run or written by hand.
OldDoc == <<"old">>
\* A file opened with mode 'w' whose write then failed.
Truncated == <<"">>

\* doc_block_name = f"{model_info.name}_doc"
DocBlockName(nm) == <<nm, "_doc">>

\* A writer that stores the bare response without the docs block.
MarkdownContentBare(nm, llm_response) == <<llm_response>>

\* markdown_content of step_5_save_doc_blocks.
MarkdownContent(nm, llm_response) ==
  <<"{% docs ">> \o DocBlockName(nm) \o <<" %}", llm_response, "{% enddocs %}">>

\* ----------------------------------------------------------- YAML files
\* f"{{ doc('{doc_block_name}') }}"
DocReference(nm) == <<"{{ doc('">> \o DocBlockName(nm) \o <<"') }}">>

\* A description written by the project's authors.
OrigDescription(nm) == <<"about ", nm>>

\* One entry of a file's models: list.
ModelConfig(nm) == [name |-> nm, description |-> OrigDescription(nm)]

\* The YAML files under models/ of the project, in glob order: the first
\* lists m1 and a model the manifest does not have, the second lists m2 and
\* m3, further files have no models: section.  form is "source" for the
\* file as its authors wrote it, "dumped" after yaml.dump rewrote it and
\* "truncated" when it was opened for writing and the dump failed.
ProjectYaml(k) ==
  [f \in 1..k |->
     [form |-> "source",
      hasModels |-> (f <= 2),
      models |-> IF f = 1 THEN <<ModelConfig("m1"), ModelConfig("legacy")>>
                 ELSE IF f = 2 THEN <<ModelConfig("m2"), ModelConfig("m3")>>
                 ELSE <<>>]]

VARIABLES
  precondition,  \* what main() and steps 1-3 find: "ok", "no_key", "no_project", "no_manifest", "bad_manifest"
  manifest,      \* [n, dup]: the model nodes of manifest.json
  mainpc,        \* position of main/run_automation: "start", "gather", "done"
  models,        \* the list returned by step 3
  pc,            \* position of each process_model coroutine
  semaphore,     \* self.semaphore._value
  calls,         \* number of session.post calls issued per unit
  genOutcome,    \* how the unit's call ended: "none", "ok", "status", "exception"
  llm_response,  \* the string call_llm_async returned to process_model
  saveOutcome,   \* how step 5 ended: "none" (not called), "ok", "open_error", "write_error"
  results,       \* the value each process_model returned
  docs,          \* content of docs/<name>_doc.md by model name
  yamlFiles,     \* content of the YAML files under models/
  step6Calls,    \* number of step_6_update_yaml_files invocations
  step6Result,   \* its return value: "none", "True", "False"
  outcome,       \* what the run logged: "running", "aborted", "success", "failed"
  faults,        \* faults the environment may still inject
  lastWriter,    \* per document, the unit that wrote the file last in this run (0: none)
  rerun,         \* TRUE once the program has been started a second time
  firstRun,      \* what the first run left behind, recorded when the second starts
  compiled_sql,  \* model_info.compiled_sql handed to construct_prompt
  prompt         \* the compiled-SQL excerpt construct_prompt embedded

vars == <<precondition, manifest, mainpc, models, pc, semaphore, calls,
          genOutcome, llm_response, saveOutcome, results, docs, yamlFiles,
          step6Calls, step6Result, outcome, faults, lastWriter, rerun,
          firstRun, compiled_sql, prompt>>

\* State outside a single pipeline run.
otherVars == <<rerun, firstRun, compiled_sql, prompt>>

Units == 1..Len(models)

NameSet == {ModelNames[i] : i \in 1..Len(ModelNames)}

\* ------------------------------------------------------------ operators
\* A text of len characters.
SqlText(len) == [j \in 1..len |-> j % 7]

\* A prompt that embeds the whole text.
SliceWhole(str, n) == str

\* Python's str[:n]
Slice(str, n) == SubSeq(str, 1, IF Len(str) < n THEN Len(str) ELSE n)

\* The compiled-SQL excerpt of the prompt construct_prompt builds.
construct_prompt(sql) == [built |-> TRUE, excerpt |-> Slice(sql, SqlBudget)]

\* No prompt built yet.
NoPrompt == [built |-> FALSE, excerpt |-> <<>>]

\* A main() that does not test the credential.
PreconditionsHoldNoKeyCheck(p) == p \notin {"no_project", "no_manifest"}

\* The checks before step 3 pass: main() found OPENAI_API_KEY, step 1
\* found dbt_project.yml and step 2 found manifest.json.
PreconditionsHold(p) == p \notin {"no_key", "no_project", "no_manifest"}

\* step_3_extract_model_info: the models of the manifest, or [] when
\* reading it raises.
step_3_extract_model_info(p, mf) ==
  IF p = "bad_manifest" THEN <<>> ELSE ExtractModels(mf.n, mf.dup)

\* A run_automation without the `if not models: return` test.
NoModelsIgnored(ms) == FALSE

\* not models
NoModels(ms) == Len(ms) = 0

\* A semaphore that is left only when the call succeeded.
ReleaseOnSuccessOnly(value, o) == IF o = "ok" THEN value + 1 ELSE value

\* A unit that keeps its slot after the call.
ReleaseDeferred(value, o) == value

\* self.semaphore._value after call_llm_async left `async with
\* self.semaphore` with outcome o.
ReleaseOnReturn(value, o) == value + 1

\* A limiter that never makes a unit wait.
CanAcquireUnbounded(value) == TRUE

\* The unit may enter `async with self.semaphore` without waiting.
CanAcquire(value) == value > 0

\* A client without the `except Exception` handler.
AfterCallUncaught(o) == IF o = "exception" THEN "raised" ELSE "saving"

\* A client that issues the request again after a failed call.
AfterCallRetry(o) == IF o = "ok" THEN "saving" ELSE "pending"

\* Where process_model continues once the POST has ended with outcome o:
\* every path of call_llm_async returns a string, so step 5 is next.
AfterCall(o) == "saving"

\* Outcomes of the POST of call_llm_async: status 200 with a well-formed
\* body, another status, or an exception inside the try block (transport
\* error, timeout, malformed body).
GenOutcomes == {"ok", "status", "exception"}

\* The string call_llm_async returns for an outcome of unit i's call.
call_llm_async(i, o) == IF o = "ok" THEN LLMContent(i) ELSE ErrorText

\* Outcomes of step_5_save_doc_blocks: written, an exception before the
\* file is open (mkdir, open), an exception in f.write after open(.., 'w').
SaveOutcomes == {"ok", "open_error", "write_error"}

\* A writer that opens the file with mode 'a'.
step_5_append(d, model_info, response, w) ==
  [docs |-> CASE w = "ok" ->
                   [d EXCEPT ![model_info.name] =
                               @ \o MarkdownContent(model_info.name, response)]
              [] w = "write_error" ->
                   [d EXCEPT ![model_info.name] = Truncated]
              [] OTHER -> d,
   ret |-> (w = "ok")]

\* A writer that leaves a docs block already in the file alone.
step_5_keep_existing(d, model_info, response, w) ==
  [docs |-> CASE w = "ok" /\ d[model_info.name] \in {Absent, OldDoc, Truncated} ->
                   [d EXCEPT ![model_info.name] =
                               MarkdownContent(model_info.name, response)]
              [] w = "write_error" ->
                   [d EXCEPT ![model_info.name] = Truncated]
              [] OTHER -> d,
   ret |-> (w = "ok")]

\* step_5_save_doc_blocks(model_info, llm_response) on the document store d
\* under outcome w: the resulting store and the returned bool.
step_5_save_doc_blocks(d, model_info, response, w) ==
  [docs |-> CASE w = "ok" ->
                   [d EXCEPT ![model_info.name] =
                               MarkdownContent(model_info.name, response)]
              [] w = "write_error" ->
                   [d EXCEPT ![model_info.name] = Truncated]
              [] OTHER -> d,
   ret |-> (w = "ok")]

\* The value process_model returns, given call_llm_async's string and the
\* bool step 5 returned.
process_model_result(response, saved) == saved

\* A wait that returns as soon as the first task has finished.
GatherFirstCompleted == \E i \in Units : pc[i] = "done"

\* asyncio.gather(*tasks) has a result for every task.
GatherDone == \A i \in Units : pc[i] = "done"

\* any(results)
AnyResults == \E i \in Units : results[i]

\* all(results)
AllResults == \A i \in Units : results[i]

\* A lookup that finds a model for every entry.
HasMatchingModelAny(ms, model_name) == TRUE

\* next((m for m in models if m.name == model_name), None) is not None
HasMatchingModel(ms, model_name) ==
  \E j \in 1..Len(ms) : ms[j].name = model_name

\* The body of step 6's loop for one file that is read, updated and
\* dumped without error.
UpdateYamlFile(file, ms) ==
  [form |-> "dumped",
   hasModels |-> file.hasModels,
   models |-> IF file.hasModels
              THEN [e \in 1..Len(file.models) |->
                      IF HasMatchingModel(ms, file.models[e].name)
                      THEN [file.models[e] EXCEPT
                              !.description = DocReference(file.models[e].name)]
                      ELSE file.models[e]]
              ELSE file.models]

\* Kinds of exception in step 6's loop: raised while the file is read,
\* parsed or updated (file untouched), or raised by yaml.dump after the
\* file was opened with mode 'w'.
YamlFaults == {"read_error", "write_error"}

\* A step 6 whose exception handler also reports success.
step_6_always_true(fs, ms, failAt, kind) ==
  [files |-> [f \in 1..Len(fs) |->
                IF failAt = 0 \/ f < failAt THEN UpdateYamlFile(fs[f], ms)
                ELSE IF f = failAt /\ kind = "write_error"
                     THEN [form |-> "truncated", hasModels |-> FALSE,
                           models |-> <<>>]
                     ELSE fs[f]],
   ret |-> TRUE]

\* step_6_update_yaml_files(models) on the files fs, where file failAt
\* (0: none) raises an exception of the given kind: the files afterwards
\* and the returned bool.
step_6_update_yaml_files(fs, ms, failAt, kind) ==
  [files |-> [f \in 1..Len(fs) |->
                IF failAt = 0 \/ f < failAt THEN UpdateYamlFile(fs[f], ms)
                ELSE IF f = failAt /\ kind = "write_error"
                     THEN [form |-> "truncated", hasModels |-> FALSE,
                           models |-> <<>>]
                     ELSE fs[f]],
   ret |-> (failAt = 0)]

\* The line run_automation logs after step 6 returned ret.
LogAfterStep6(ret) == "success"

BoolStr(b) == IF b THEN "True" ELSE "False"

\* ----------------------------------------------------------- initial state
Preconditions == {"ok", "no_key", "no_project", "no_manifest", "bad_manifest"}

InitCommon ==
  /\ mainpc = "start"
  /\ models = <<>>
  /\ pc = <<>>
  /\ semaphore = SemaphoreCapacity
  /\ calls = <<>>
  /\ genOutcome = <<>>
  /\ llm_response = <<>>
  /\ saveOutcome = <<>>
  /\ results = <<>>
  /\ step6Calls = 0
  /\ step6Result = "none"
  /\ outcome = "running"
  /\ lastWriter = [nm \in NameSet |-> 0]
  /\ rerun = FALSE
  /\ firstRun = [clean |-> FALSE, docs |-> <<>>, yamlFiles |-> <<>>]

\* The pipeline specifications do not build prompts step by step.
InitNoPrompt ==
  /\ compiled_sql = <<>>
  /\ prompt = NoPrompt

\* A project of up to MaxRecords models, possibly with a duplicate name,
\* with or without documents of an earlier run.
InitSmall ==
  /\ precondition \in Preconditions
  /\ \E n \in 0..MaxRecords, dup \in BOOLEAN :
       /\ dup => n >= 2
       /\ manifest = [n |-> n, dup |-> dup]
  /\ \E old \in {Absent, OldDoc} : docs = [nm \in NameSet |-> old]
  /\ \E k \in 0..MaxFiles : yamlFiles = ProjectYaml(k)
  /\ faults = MaxFaults

\* A project with more models than semaphore slots.
InitLarge ==
  /\ precondition = "ok"
  /\ manifest = [n |-> CapRecords, dup |-> FALSE]
  /\ docs = [nm \in NameSet |-> Absent]
  /\ yamlFiles = ProjectYaml(MaxFiles)
  /\ faults = 1

Init == InitCommon /\ InitNoPrompt /\ (InitSmall \/ InitLarge)

\* A project that is documented twice: one fault may occur in the two runs.
InitTwice ==
  /\ InitCommon
  /\ InitNoPrompt
  /\ precondition = "ok"
  /\ \E n \in 1..MaxRecords, dup \in BOOLEAN :
       /\ dup => n >= 2
       /\ manifest = [n |-> n, dup |-> dup]
  /\ \E old \in {Absent, OldDoc} : docs = [nm \in NameSet |-> old]
  /\ \E k \in 0..MaxFiles : yamlFiles = ProjectYaml(k)
  /\ faults = 1

\* A model whose compiled SQL has any length up to MaxSqlLen.
InitPrompt ==
  /\ InitCommon
  /\ precondition = "ok"
  /\ manifest = [n |-> 1, dup |-> FALSE]
  /\ docs = [nm \in NameSet |-> Absent]
  /\ yamlFiles = ProjectYaml(0)
  /\ faults = 0
  /\ \E len \in 0..MaxSqlLen : compiled_sql = SqlText(len)
  /\ prompt = NoPrompt

\* ----------------------------------------------------------------- actions
\* main() and run_automation() up to asyncio.gather: the credential check,
\* steps 1-3 and the creation of one process_model coroutine per model.
Start ==
  /\ mainpc = "start"
  /\ LET ms == IF PreconditionsHold(precondition)
               THEN step_3_extract_model_info(precondition, manifest)
               ELSE <<>>
         n == Len(ms)
         stop == ~PreconditionsHold(precondition) \/ NoModels(ms)
     IN /\ models' = ms
        /\ pc' = [i \in 1..n |-> "pending"]
        /\ calls' = [i \in 1..n |-> 0]
        /\ genOutcome' = [i \in 1..n |-> "none"]
        /\ llm_response' = [i \in 1..n |-> "none"]
        /\ saveOutcome' = [i \in 1..n |-> "none"]
        /\ results' = [i \in 1..n |-> FALSE]
        /\ mainpc' = IF stop THEN "done" ELSE "gather"
        /\ outcome' = IF stop THEN "aborted" ELSE "running"
  /\ UNCHANGED <<otherVars, lastWriter, precondition, manifest, semaphore,
                 docs, yamlFiles, step6Calls, step6Result, faults>>

\* process_model up to its suspension: the prompt is built, the semaphore
\* is entered and the POST is issued.
Acquire(i) ==
  /\ mainpc = "gather"
  /\ pc[i] = "pending"
  /\ CanAcquire(semaphore)
  /\ semaphore' = semaphore - 1
  /\ calls' = [calls EXCEPT ![i] = @ + 1]
  /\ pc' = [pc EXCEPT ![i] = "calling"]
  /\ UNCHANGED <<otherVars, lastWriter,
                 precondition, manifest, mainpc, models, genOutcome,
                 llm_response, saveOutcome, results, docs, yamlFiles,
                 step6Calls, step6Result, outcome, faults>>

\* The POST of unit i ends with outcome o: call_llm_async returns its
\* string and leaves `async with self.semaphore`.
Respond(i, o) ==
  /\ pc[i] = "calling"
  /\ o # "ok" => faults > 0
  /\ faults' = IF o = "ok" THEN faults ELSE faults - 1
  /\ genOutcome' = [genOutcome EXCEPT ![i] = o]
  /\ llm_response' = [llm_response EXCEPT ![i] = call_llm_async(i, o)]
  /\ semaphore' = ReleaseOnReturn(semaphore, o)
  /\ pc' = [pc EXCEPT ![i] = AfterCall(o)]
  /\ UNCHANGED <<otherVars, lastWriter,
                 precondition, manifest, mainpc, models, calls, saveOutcome,
                 results, docs, yamlFiles, step6Calls, step6Result, outcome>>

\* process_model after the call: step 5 with outcome w, whose bool is the
\* coroutine's result.
Save(i, w) ==
  /\ pc[i] = "saving"
  /\ w # "ok" => faults > 0
  /\ faults' = IF w = "ok" THEN faults ELSE faults - 1
  /\ LET r == step_5_save_doc_blocks(docs, models[i], llm_response[i], w)
     IN /\ docs' = r.docs
        /\ results' = [results EXCEPT
                         ![i] = process_model_result(llm_response[i], r.ret)]
  /\ saveOutcome' = [saveOutcome EXCEPT ![i] = w]
  /\ lastWriter' = IF w \in {"ok", "write_error"}
                   THEN [lastWriter EXCEPT ![models[i].name] = i]
                   ELSE lastWriter
  /\ pc' = [pc EXCEPT ![i] = "done"]
  /\ UNCHANGED <<otherVars,
                 precondition, manifest, mainpc, models, semaphore, calls,
                 genOutcome, llm_response, yamlFiles, step6Calls,
                 step6Result, outcome>>

\* run_automation after gather when all(results): step 6, then the
\* success line.
FinishAll ==
  /\ mainpc = "gather"
  /\ GatherDone
  /\ AllResults
  /\ \E failAt \in 0..Len(yamlFiles), kind \in YamlFaults :
       /\ failAt > 0 => faults > 0
       /\ failAt = 0 => kind = "read_error"
       /\ faults' = IF failAt = 0 THEN faults ELSE faults - 1
       /\ LET r == step_6_update_yaml_files(yamlFiles, models, failAt, kind)
          IN /\ yamlFiles' = r.files
             /\ step6Result' = BoolStr(r.ret)
             /\ outcome' = LogAfterStep6(r.ret)
  /\ step6Calls' = step6Calls + 1
  /\ mainpc' = "done"
  /\ UNCHANGED <<otherVars, lastWriter,
                 precondition, manifest, models, pc, semaphore, calls,
                 genOutcome, llm_response, saveOutcome, results, docs>>

\* run_automation after gather when some result is False.
FinishSome ==
  /\ mainpc = "gather"
  /\ GatherDone
  /\ ~AllResults
  /\ outcome' = "failed"
  /\ mainpc' = "done"
  /\ UNCHANGED <<otherVars, lastWriter,
                 precondition, manifest, models, pc, semaphore, calls,
                 genOutcome, llm_response, saveOutcome, results, docs,
                 yamlFiles, step6Calls, step6Result, faults>>

Next ==
  \/ Start
  \/ \E i \in Units : Acquire(i)
  \/ \E i \in Units, o \in GenOutcomes : Respond(i, o)
  \/ \E i \in Units, w \in SaveOutcomes : Save(i, w)
  \/ FinishAll
  \/ FinishSome

Spec == Init /\ [][Next]_vars

\* The event loop runs every task that can run, and every POST returns.
FairSpec == Init /\ [][Next]_vars /\ WF_vars(Next)

\* Every call and every write of the run succeeded and step 6 returned True.
CleanRun ==
  /\ \A i \in Units : genOutcome[i] = "ok" /\ saveOutcome[i] = "ok"
  /\ step6Result = "True"

\* The program is started again in the same project: asyncio.run(main())
\* with a new DBTDocumentationAutomator, the files as the first run left
\* them.
Rerun ==
  /\ mainpc = "done"
  /\ ~rerun
  /\ rerun' = TRUE
  /\ firstRun' = [clean |-> CleanRun, docs |-> docs, yamlFiles |-> yamlFiles]
  /\ mainpc' = "start"
  /\ models' = <<>>
  /\ pc' = <<>>
  /\ semaphore' = SemaphoreCapacity
  /\ calls' = <<>>
  /\ genOutcome' = <<>>
  /\ llm_response' = <<>>
  /\ saveOutcome' = <<>>
  /\ results' = <<>>
  /\ step6Calls' = 0
  /\ step6Result' = "none"
  /\ outcome' = "running"
  /\ lastWriter' = [nm \in NameSet |-> 0]
  /\ UNCHANGED <<precondition, manifest, docs, yamlFiles, faults,
                 compiled_sql, prompt>>

NextTwice == Next \/ Rerun

SpecTwice == InitTwice /\ [][NextTwice]_vars

\* process_model builds the prompt of its model (line 391).
ConstructPrompt ==
  /\ ~prompt.built
  /\ prompt' = construct_prompt(compiled_sql)
  /\ UNCHANGED <<precondition, manifest, mainpc, models, pc, semaphore, calls,
                 genOutcome, llm_response, saveOutcome, results, docs,
                 yamlFiles, step6Calls, step6Result, outcome, faults,
                 lastWriter, rerun, firstRun, compiled_sql>>

NextPrompt == ConstructPrompt

SpecPrompt == InitPrompt /\ [][NextPrompt]_vars

TypeOK ==
  /\ mainpc \in {"start", "gather", "done"}
  /\ semaphore \in 0..SemaphoreCapacity
  /\ \A i \in Units : pc[i] \in {"pending", "calling", "saving", "done"}
  /\ faults >= 0
  /\ rerun \in BOOLEAN
  /\ prompt.built \in BOOLEAN

\* ------------------------------------------------------------ properties
\* Units whose generation call is outstanding: slot acquired, call not
\* yet returned.
Outstanding == {i \in Units : pc[i] = "calling"}

GenFailed(i) == genOutcome[i] \in {"status", "exception"}

SaveFailed(i) == saveOutcome[i] \in {"open_error", "write_error"}

\* The YAML files as they were when the run started.
SourceYaml == ProjectYaml(Len(yamlFiles))

\* Document files that hold a docs block.
DocBlocks == {nm \in NameSet : docs[nm] \notin {Absent, OldDoc, Truncated}}

\* C1: in every reachable state the number of outstanding generation calls
\* is at most the limiter capacity, 5.
C1_ConcurrencyCap == Cardinality(Outstanding) <= 5

\* C1 witness: five calls are outstanding while a sixth unit waits for a slot.
C1_Witness ==
  /\ Cardinality(Outstanding) = 5
  /\ \E i \in Units : pc[i] = "pending"
  /\ mainpc = "gather"

\* C2: if the generation call failed for at least one record, step 6 is
\* never invoked in that run and no YAML file is rewritten.
C2_GenFailureBlocksRewrite ==
  (\E i \in Units : GenFailed(i)) =>
     /\ step6Calls = 0
     /\ yamlFiles = SourceYaml

\* C3: a unit whose generation call failed is unsuccessful and step 5 is
\* not called for it, so its document is neither created nor updated.
C3_GenFailureWritesNothing ==
  \A i \in Units :
    (pc[i] = "done" /\ GenFailed(i)) =>
       /\ ~results[i]
       /\ saveOutcome[i] = "none"
       /\ (~manifest.dup => docs[models[i].name] \in {Absent, OldDoc})

\* C4: if the document write of at least one unit failed, step 6 is never
\* invoked and the run is reported as failed.
C4_SaveFailureBlocksRewrite ==
  (\E i \in Units : pc[i] = "done" /\ SaveFailed(i)) =>
     /\ step6Calls = 0
     /\ yamlFiles = SourceYaml
     /\ outcome # "success"
     /\ (mainpc = "done" => outcome = "failed")

\* C4 witness: a run of several units has ended after one write failed
\* and another succeeded.
C4_Witness ==
  /\ mainpc = "done"
  /\ \E i, j \in Units : SaveFailed(i) /\ saveOutcome[j] = "ok"

C6_WaitsForEveryUnit ==
  (step6Calls > 0 \/ outcome \in {"success", "failed"} \/
   (mainpc = "done" /\ Len(models) > 0)) =>
     \A i \in Units : pc[i] = "done"

\* C6 witness: a unit has already ended unsuccessfully while a sibling's
\* call is outstanding, and the run is still waiting.
C6_Witness ==
  /\ mainpc = "gather"
  /\ outcome = "running"
  /\ \E i, j \in Units : pc[i] = "done" /\ ~results[i] /\ pc[j] = "calling"

\* C7: a generation failure is recorded as that unit's failure and does
\* not abort the siblings: every other record whose call succeeded has
\* its document written.
C7_FailureIsolation ==
  \A i \in Units :
    (pc[i] = "done" /\ GenFailed(i)) =>
       /\ ~results[i]
       /\ (mainpc = "done" =>
             \A j \in Units :
               (genOutcome[j] = "ok" /\ saveOutcome[j] = "ok"
                /\ ~manifest.dup) =>
                  docs[models[j].name] =
                    MarkdownContent(models[j].name, LLMContent(j)))

\* C8: when every unit succeeded step 6 is invoked exactly once, and the
\* run is reported successful only if step 6 returned True.
C8_SuccessNeedsRewrite ==
  mainpc = "done" =>
     /\ (Len(models) > 0 /\ AllResults) => step6Calls = 1
     /\ outcome = "success" => step6Result = "True"

\* C9: exactly one outbound call is issued per record; a failed call is
\* never retried.
C9_SingleAttempt ==
  \A i \in Units :
    /\ calls[i] <= 1
    /\ pc[i] \in {"calling", "saving", "done"} => calls[i] = 1

\* C9 witness: a unit whose call failed has completed.
C9_Witness ==
  \E i \in Units : pc[i] = "done" /\ GenFailed(i) /\ calls[i] = 1

\* C10: step 6 returns True only if every file was processed without
\* error; on an error it returns False, the files before the failing one
\* stay rewritten, and the call always returns a bool.
C10_RewriteAllOrFalse ==
  step6Calls > 0 =>
     /\ step6Result \in {"True", "False"}
     /\ step6Result = "True" <=>
          \A f \in 1..Len(yamlFiles) : yamlFiles[f].form = "dumped"
     /\ step6Result = "False" =>
          \E k \in 1..Len(yamlFiles) :
             /\ yamlFiles[k].form \in {"source", "truncated"}
             /\ \A f \in 1..(k - 1) :
                  yamlFiles[f] = UpdateYamlFile(SourceYaml[f], models)
             /\ \A f \in (k + 1)..Len(yamlFiles) :
                  yamlFiles[f] = SourceYaml[f]

\* C10 witness: step 6 returned False after it had rewritten the first
\* file.
C10_Witness ==
  /\ step6Result = "False"
  /\ Len(yamlFiles) >= 2
  /\ yamlFiles[1].form = "dumped"
  /\ yamlFiles[1] # SourceYaml[1]

\* Entry e of file f is as the claim of C11 describes it: a reference to
\* '<name>_doc' when a record has its name, its original description
\* otherwise.
EntryRewritten(f, e) ==
  LET orig == SourceYaml[f].models[e]
  IN /\ Len(yamlFiles[f].models) >= e
     /\ yamlFiles[f].models[e].name = orig.name
     /\ yamlFiles[f].models[e].description =
          IF \E i \in Units : models[i].name = orig.name
          THEN <<"{{ doc('", orig.name, "_doc", "') }}">>
          ELSE orig.description

\* C11 as stated: after step 6, every entry whose name is a record's name
\* refers to '<name>_doc' and every other entry has its original description.
C11_NameMatchingAlways ==
  step6Calls > 0 =>
     \A f \in 1..Len(yamlFiles) :
        \A e \in 1..Len(SourceYaml[f].models) : EntryRewritten(f, e)

\* C11 amended: after a step 6 that returned True, every entry whose name
\* is a record's name refers to '<name>_doc' and every other entry has its
\* original description.
C11_NameMatching ==
  step6Result = "True" =>
     \A f \in 1..Len(yamlFiles) :
        \A e \in 1..Len(SourceYaml[f].models) : EntryRewritten(f, e)

\* C11 witness: step 6 returned True on a file with a matching and a
\* non-matching entry.
C11_Witness ==
  /\ step6Result = "True"
  /\ Len(yamlFiles) >= 1
  /\ yamlFiles[1].models[1].description = DocReference("m1")
  /\ yamlFiles[1].models[2].description = OrigDescription("legacy")

\* The second run has ended, and both runs were without any failure.
TwoCleanRuns == rerun /\ mainpc = "done" /\ firstRun.clean /\ CleanRun

\* C12 as stated: after two runs with the same records and succeeding
\* generation, documents and YAML files are the same after the second run
\* as after the first, in every interleaving.
C12_IdempotentAlways ==
  TwoCleanRuns => docs = firstRun.docs /\ yamlFiles = firstRun.yamlFiles

\* C12 amended: the same, for records with pairwise distinct names.
C12_Idempotent ==
  (TwoCleanRuns /\ ~manifest.dup) =>
     docs = firstRun.docs /\ yamlFiles = firstRun.yamlFiles

\* C12 witness: two runs without failure over several distinct records
\* and a YAML file that lists one of them.
C12_Witness ==
  /\ TwoCleanRuns
  /\ ~manifest.dup
  /\ Len(models) >= 2
  /\ Len(yamlFiles) >= 1
  /\ yamlFiles[1].form = "dumped"
  /\ docs["m1"] = MarkdownContent("m1", LLMContent(1))

\* No document file differs from the state before the run.
DocsUntouched == \E old \in {Absent, OldDoc} : docs = [nm \in NameSet |-> old]

\* C13: with a missing credential, dbt_project.yml or manifest.json the run
\* aborts before any pipeline work: no slot is taken, no call issued, no
\* document written and no YAML file rewritten.
C13_PreconditionFailureAborts ==
  precondition \in {"no_key", "no_project", "no_manifest"} =>
     /\ \A i \in Units : calls[i] = 0 /\ saveOutcome[i] = "none"
     /\ semaphore = 5
     /\ DocsUntouched
     /\ step6Calls = 0
     /\ yamlFiles = SourceYaml
     /\ outcome \in {"running", "aborted"}
     /\ (mainpc # "start" => mainpc = "done" /\ outcome = "aborted")

\* C13 witness: a run without credential has ended in a project whose
\* manifest has models and whose models/ directory has YAML files.
C13_Witness ==
  /\ precondition = "no_key"
  /\ mainpc = "done"
  /\ outcome = "aborted"
  /\ manifest.n >= 2
  /\ Len(yamlFiles) >= 1

\* C14: every unit leaves the semaphore whatever the outcome of its call:
\* when every call returns, every unit of a run completes, also with more
\* units than slots, and at the end of the run all 5 slots are free.
C14_NoSlotLeak ==
  /\ [](mainpc = "done" => semaphore = 5)
  /\ [](semaphore + Cardinality(Outstanding) >= 5)
  /\ <>(mainpc = "done" /\ \A i \in Units : pc[i] = "done")

\* C14 witness: a run over more units than slots has ended, one of its
\* calls failed, and all slots are free.
C14_Witness ==
  /\ mainpc = "done"
  /\ Len(models) > 5
  /\ \E i \in Units : GenFailed(i)
  /\ \A i \in Units : pc[i] = "done"
  /\ semaphore = 5

\* C15: whatever the outcome of the POST and of the document write, the
\* unit ends by returning a bool to the gather; no exception leaves it.
C15_NoFaultEscapes ==
  /\ \A i \in Units :
       /\ pc[i] # "raised"
       /\ genOutcome[i] # "none" => pc[i] \in {"saving", "done"}
       /\ saveOutcome[i] # "none" => pc[i] = "done" /\ results[i] \in BOOLEAN
  /\ (mainpc = "done" /\ Len(models) > 0) => outcome \in {"success", "failed"}

\* C15 witness: a run has ended in which one call raised, one call
\* answered with an error status and one write failed.
C15_Witness ==
  /\ mainpc = "done"
  /\ \E i, j, k \in Units :
       /\ genOutcome[i] = "exception"
       /\ genOutcome[j] = "status"
       /\ SaveFailed(k)
  /\ \A i \in Units : pc[i] = "done"

\* C16: the excerpt embedded in the prompt is the prefix of the compiled
\* SQL of length min(length, 1000) and never longer than 1000 characters.
C16_Truncation ==
  prompt.built =>
     LET n == Len(compiled_sql)
         m == IF n < 1000 THEN n ELSE 1000
     IN /\ Len(prompt.excerpt) = m
        /\ Len(prompt.excerpt) <= 1000
        /\ \A j \in 1..m : prompt.excerpt[j] = compiled_sql[j]

\* C16 witness: a prompt was built from a text longer than 1000
\* characters.
C16_Witness ==
  /\ prompt.built
  /\ Len(compiled_sql) > 1000
  /\ Len(prompt.excerpt) = 1000

\* Units that have their call behind them and their document still to
\* write.
Writing == {i \in Units : pc[i] = "saving"}

\* C17 as stated: a unit holds its slot from the acquisition until its
\* document is written, so the slots taken are those of the units that
\* are calling or writing.
C17_SlotHeldWhileWriting ==
  5 - semaphore = Cardinality(Outstanding \cup Writing)

\* C17 amended: a unit holds its slot from the acquisition until its call
\* has returned; the slots taken are those of the units whose call is
\* outstanding, and a unit that writes its document holds none.
C17_SlotReleasedBeforeWrite ==
  5 - semaphore = Cardinality(Outstanding)

\* C17 witness: a unit is about to write its document while all five
\* slots are free.
C17_Witness ==
  /\ Writing # {}
  /\ Outstanding = {}
  /\ semaphore = 5

\* The run has ended, the first two records share the name m1 and both
\* units wrote their document without error.
DuplicateWritten ==
  /\ manifest.dup
  /\ mainpc = "done"
  /\ Len(models) >= 2
  /\ models[1].name = models[2].name
  /\ saveOutcome[1] = "ok"
  /\ saveOutcome[2] = "ok"

\* C18: with two records of one name both units report success, one
\* document '<name>_doc' exists, and it holds the text of the unit that
\* wrote last.
C18_LastWriterWins ==
  DuplicateWritten =>
     /\ results[1] /\ results[2]
     /\ lastWriter["m1"] \in {1, 2}
     /\ docs["m1"] = <<"{% docs ", "m1", "_doc", " %}",
                       llm_response[lastWriter["m1"]], "{% enddocs %}">>
     /\ docs["m2"] \in {Absent, OldDoc}

\* C18 witness: both calls succeeded, the second record's unit wrote
\* first, and the document holds the first record's text.
C18_Witness ==
  /\ DuplicateWritten
  /\ genOutcome[1] = "ok"
  /\ genOutcome[2] = "ok"
  /\ lastWriter["m1"] = 1
  /\ docs["m1"] = MarkdownContent("m1", LLMContent(1))

\* Step 3 has returned an empty list: the manifest has no model node, or
\* reading it raised.
EmptyRecordList ==
  /\ mainpc # "start"
  /\ precondition \in {"ok", "bad_manifest"}
  /\ Len(models) = 0

\* C19: with an empty record list the run stops before the fan-out: no
\* slot is taken, no call issued, no document written, step 6 is not
\* invoked and no success is reported.
C19_EmptyListStops ==
  EmptyRecordList =>
     /\ mainpc = "done"
     /\ semaphore = 5
     /\ DocsUntouched
     /\ step6Calls = 0
     /\ yamlFiles = SourceYaml
     /\ outcome = "aborted"

\* C19 witness: a run over a manifest without models has ended in a
\* project with YAML files, while all(results) holds of the empty list.
C19_Witness ==
  /\ EmptyRecordList
  /\ precondition = "ok"
  /\ manifest.n = 0
  /\ mainpc = "done"
  /\ AllResults
  /\ Len(yamlFiles) >= 1

====
